---- MODULE Spec2Model ----
(***************************************************************************)
(* A model of the YouTube analytics dashboard: the SQLite video store      *)
(* (database.py), the normalizer (data_utils.py) and the filtering and     *)
(* metrics code of the Streamlit tabs (youtube_analytics_app.py).          *)
(*                                                                         *)
(* Python strings that the code inspects character by character are        *)
(* sequences of one-character strings; JSON values of the "id" field are    *)
(* tagged records, so that a flat string and an object stay distinct.      *)
(***************************************************************************)
EXTENDS Integers, Sequences, FiniteSets, TLC

VARIABLES
    \* ---- database.py: one DatabaseManager on one database file
    videos,      \* the videos table as self.conn sees it (rows in rowid order)
    committed,   \* the videos table as committed to the database file
    before,      \* [videos, committed] as they were before the last operation
    lastOp,      \* the last DatabaseManager operation
    lastDf,      \* the DataFrame handed to insert_videos, if that was lastOp
    lastResult,  \* "ok" or "error": whether the last operation raised
    ret,         \* the value the last operation returned
    repeat,      \* how many insert_videos calls in a row were given lastDf
    \* ---- data_utils.py: one call of DataProcessor.videos_to_dataframe
    rawItems,    \* the raw API items handed to videos_to_dataframe
    npc,         \* "start" before the call, "done" after it
    out,         \* [status, data]: the DataFrame returned, or the exception
    \* ---- youtube_analytics_app.py: one Streamlit session
    db_manager,           \* st.session_state['db_manager']: "uninitialized"
                          \* (no such key), "connected" or "none" (None)
    history,              \* the search-history entries the store holds
    storeFailed,          \* a store operation of this session has raised
    historyView,          \* what the last run of search_history_tab displayed
    search_results_data,  \* st.session_state['search_results_data']
    searchRun,            \* what the last run of video_search_tab did
    searchView,           \* what the last run of video_search_tab displayed
    channel_analysis_data,  \* st.session_state['channel_analysis_data']
    channelRun,           \* what the last run of channel_analysis_tab did
    channelView,          \* what the last run of channel_analysis_tab displayed
    \* ---- youtube_analytics_app.py: the date filtering of channel_analysis_tab
    channelVideos,        \* videos, as get_channel_videos returned them
    dateOptions,          \* start_date, end_date, upload_start_date, upload_end_date
    dpc,                  \* "start" before lines 198-206, "done" after them
    filteredVideos,       \* videos after lines 198-206
    \* ---- youtube_service.py: one call of YouTubeService.search_videos
    searchCall,           \* [max_results, pc]: the argument, "start" or "done"
    searchOutcome,        \* [requests, raised]: requests sent, exception raised
    \* ---- one call of DatabaseManager.get_popular_searches
    popularCall           \* [search_type, limit, pc, result]

storeVars == <<videos, committed, before, lastOp, lastDf, lastResult, ret,
               repeat>>
normVars == <<rawItems, npc, out>>
searchVars == <<search_results_data, searchRun, searchView>>
chanVars == <<channel_analysis_data, channelRun, channelView>>
dbVars == <<db_manager, history, storeFailed>>
appVars == <<dbVars, historyView, searchVars, chanVars>>
dateVars == <<channelVideos, dateOptions, dpc, filteredVideos>>
callVars == <<searchCall, searchOutcome, popularCall>>
vars == <<storeVars, normVars, appVars, dateVars, callVars>>

(***************************************************************************)
(* Bounds                                                                  *)
(***************************************************************************)
MaxBatch == 2     \* longest DataFrame handed to insert_videos
MaxItems == 2     \* longest list of raw items handed to the normalizer
MaxResults == 2   \* most videos one API call returns
MaxHistory == 1   \* most search-history entries written by one tab alone
MaxSessionHistory == 2  \* the same, in a session that uses all three tabs
MaxVideos == 2    \* most videos get_channel_videos returns
MaxLedger == 3    \* most entries of a ledger that earlier sessions wrote
MaxDay == 2       \* calendar days are 0..MaxDay
TicksPerDay == 2  \* instants of one day: tick 0 is 00:00:00

(***************************************************************************)
(* Strings and JSON values                                                 *)
(***************************************************************************)
\* The literal "videoId" of data_utils.py line 10.
VideoIdKey == <<"v", "i", "d", "e", "o", "I", "d">>
\* Another key an id object can carry (a search hit that is a channel).
ChannelIdKey == <<"c", "h">>

\* A Python str value.
StrVal(s) == [shape |-> "str", key |-> <<>>, str |-> s]
\* A Python dict with the single entry {k: s}.
ObjVal(k, s) == [shape |-> "obj", key |-> k, str |-> s]

\* Python's `k in s` for two strings: k occurs in s as a substring.
IsSubstring(k, s) ==
    \E i \in 1..(Len(s) - Len(k) + 1) : SubSeq(s, i, i + Len(k) - 1) = k

\* Python's `k in v`: key membership for a dict, substring test for a str.
PyIn(k, v) ==
    IF v.shape = "obj" THEN v.key = k ELSE IsSubstring(k, v.str)

(***************************************************************************)
(* database.py                                                             *)
(***************************************************************************)
\* sqlite3 binds str (and None, int, float, bytes) parameters; a dict raises.
Bindable(rec) == rec.VideoID.shape = "str"

\* The parameter tuple of lines 28-31 as the row SQLite stores.
RowOf(rec) ==
    [video_id |-> rec.VideoID.str, title |-> rec.Title,
     description |-> rec.Description, channel_title |-> rec.ChannelTitle,
     published_at |-> rec.PublishedAt]

\* video_id TEXT PRIMARY KEY: is there a row with this key?
HasKey(tbl, id) == \E i \in 1..Len(tbl) : tbl[i].video_id = id

\* A plain INSERT into a table without the primary key: always a new row.
InsertNoKey(tbl, rec) ==
    IF ~Bindable(rec) THEN [ok |-> FALSE, tbl |-> tbl]
    ELSE [ok |-> TRUE, tbl |-> Append(tbl, RowOf(rec))]

\* A plain INSERT (no OR IGNORE): a stored key raises IntegrityError.
InsertOrAbort(tbl, rec) ==
    IF ~Bindable(rec) THEN [ok |-> FALSE, tbl |-> tbl]
    ELSE IF HasKey(tbl, rec.VideoID.str) THEN [ok |-> FALSE, tbl |-> tbl]
    ELSE [ok |-> TRUE, tbl |-> Append(tbl, RowOf(rec))]

\* INSERT OR REPLACE: a stored key's row is deleted and the new row added.
InsertOrReplace(tbl, rec) ==
    IF ~Bindable(rec) THEN [ok |-> FALSE, tbl |-> tbl]
    ELSE [ok |-> TRUE,
          tbl |-> Append(SelectSeq(tbl, LAMBDA r : r.video_id # rec.VideoID.str),
                         RowOf(rec))]

\* cursor.execute("INSERT OR IGNORE INTO videos ...", row): lines 25-31.
InsertOrIgnore(tbl, rec) ==
    IF ~Bindable(rec) THEN [ok |-> FALSE, tbl |-> tbl]
    ELSE IF HasKey(tbl, rec.VideoID.str) THEN [ok |-> TRUE, tbl |-> tbl]
    ELSE [ok |-> TRUE, tbl |-> Append(tbl, RowOf(rec))]

\* A loop that handles the first row only (the commit indented into it).
InsertLoopFirstOnly(tbl, df) ==
    IF df = <<>> THEN [ok |-> TRUE, tbl |-> tbl]
    ELSE InsertOrIgnore(tbl, Head(df))

\* The loop of lines 24-31: rows in order, stopping at the first exception.
RECURSIVE InsertLoop(_, _)
InsertLoop(tbl, df) ==
    IF df = <<>> THEN [ok |-> TRUE, tbl |-> tbl]
    ELSE LET r == InsertOrIgnore(tbl, Head(df))
         IN  IF r.ok THEN InsertLoop(r.tbl, Tail(df)) ELSE r

\* What a Python function without a return statement returns.
NoneVal == [kind |-> "None", n |-> 0, rows |-> <<>>]
IntVal(k) == [kind |-> "int", n |-> k, rows |-> <<>>]
FrameVal(tbl) == [kind |-> "DataFrame", n |-> 0, rows |-> tbl]

\* A function that returns the number of rows it inserted.
ReturnInserted(old, new) == IntVal(Len(new) - Len(old))

\* insert_videos has no return statement (lines 23-32).
InsertReturn(old, new) == NoneVal

\* The two field variants a record of one video can carry.
Fields(v) ==
    IF v = 1
    THEN [Title |-> "T1", Description |-> "D1", ChannelTitle |-> "Ch1",
          PublishedAt |-> "2024-01-01T00:00:00Z"]
    ELSE [Title |-> "T2", Description |-> "", ChannelTitle |-> "Ch2",
          PublishedAt |-> "2024-02-01T00:00:00Z"]

DfRecord(id, v) ==
    [VideoID |-> id, Title |-> Fields(v).Title,
     Description |-> Fields(v).Description,
     ChannelTitle |-> Fields(v).ChannelTitle,
     PublishedAt |-> Fields(v).PublishedAt]

\* The rows a DataFrame handed to insert_videos is drawn from: two videos in
\* two variants each, and a row whose "Video ID" is an id object.
StoreIds == {StrVal(<<"a">>), StrVal(<<"b">>)}
DfRecords ==
    {DfRecord(id, v) : id \in StoreIds, v \in {1, 2}}
        \cup {DfRecord(ObjVal(ChannelIdKey, <<"c">>), 1)}

SeqsUpTo(S, n) == UNION {[1..k -> S] : k \in 0..n}

StoreInit ==
    /\ videos = <<>>
    /\ committed = <<>>
    /\ before = [videos |-> <<>>, committed |-> <<>>]
    /\ lastOp = "init"
    /\ lastDf = <<>>
    /\ lastResult = "ok"
    /\ ret = NoneVal
    /\ repeat = 0

\* DatabaseManager.insert_videos(df)
insert_videos(df) ==
    LET r == InsertLoop(videos, df)
    IN  /\ videos' = r.tbl
        \* conn.commit() of line 32 is reached only when no row raised
        /\ committed' = IF r.ok THEN r.tbl ELSE committed
        /\ before' = [videos |-> videos, committed |-> committed]
        /\ lastOp' = "insert"
        /\ lastDf' = df
        /\ lastResult' = IF r.ok THEN "ok" ELSE "error"
        /\ ret' = IF r.ok THEN InsertReturn(videos, r.tbl) ELSE NoneVal
        /\ repeat' = IF lastOp = "insert" /\ lastDf = df
                     THEN (IF repeat < 2 THEN repeat + 1 ELSE 2)
                     ELSE 1

\* DatabaseManager.fetch_all_videos()
fetch_all_videos ==
    /\ ret' = FrameVal(videos)
    /\ before' = [videos |-> videos, committed |-> committed]
    /\ lastOp' = "fetch"
    /\ lastDf' = <<>>
    /\ lastResult' = "ok"
    /\ repeat' = 0
    /\ UNCHANGED <<videos, committed>>

\* Line 13 as DROP TABLE IF EXISTS followed by CREATE TABLE: the table is
\* made anew on every run.
create_table_recreates ==
    /\ videos' = <<>>
    /\ committed' = <<>>
    /\ before' = [videos |-> videos, committed |-> committed]
    /\ lastOp' = "create_table"
    /\ lastResult' = "ok"
    /\ ret' = NoneVal
    /\ repeat' = 0
    /\ lastDf' = <<>>

\* DatabaseManager._create_table(): CREATE TABLE IF NOT EXISTS, then commit.
create_table ==
    /\ committed' = videos
    /\ before' = [videos |-> videos, committed |-> committed]
    /\ lastOp' = "create_table"
    /\ lastResult' = "ok"
    /\ ret' = NoneVal
    /\ repeat' = 0
    /\ lastDf' = <<>>
    /\ UNCHANGED videos

\* DatabaseManager(): a new connection to the same file (the old one is
\* dropped with its open transaction), then _create_table().
DatabaseManager_init ==
    /\ videos' = committed
    /\ UNCHANGED committed
    /\ before' = [videos |-> videos, committed |-> committed]
    /\ lastOp' = "connect"
    /\ lastResult' = "ok"
    /\ ret' = NoneVal
    /\ repeat' = 0
    /\ lastDf' = <<>>

(***************************************************************************)
(* Properties of the store                                                 *)
(***************************************************************************)
AllBindable(df) == \A i \in 1..Len(df) : Bindable(df[i])
IdsOf(df) == {df[i].VideoID.str : i \in 1..Len(df)}
KeysOf(tbl) == {tbl[i].video_id : i \in 1..Len(tbl)}
RowCount(tbl, id) == Cardinality({i \in 1..Len(tbl) : tbl[i].video_id = id})
InTable(row, tbl) == \E i \in 1..Len(tbl) : tbl[i] = row

\* C1: a second insert_videos call with the same record set leaves the table
\* (as the connection sees it and as committed) exactly as the first call left
\* it, and the table then holds exactly one row per distinct video_id of the
\* set, also when the set names one video_id more than once.
C1_UpsertTwiceIsOnce ==
    (lastOp = "insert" /\ repeat >= 2) =>
        /\ videos = before.videos
        /\ committed = before.committed
        /\ AllBindable(lastDf) =>
              \A id \in IdsOf(lastDf) :
                  RowCount(videos, id) = 1 /\ RowCount(committed, id) = 1

C1_Witness ==
    /\ lastOp = "insert" /\ repeat >= 2 /\ lastResult = "ok"
    /\ Len(lastDf) = 2
    /\ lastDf[1].VideoID = lastDf[2].VideoID
    /\ lastDf[1] # lastDf[2]

\* C2: in every reachable state the table holds at most one row per video_id,
\* and an insert_videos call whose records name a video_id that is already
\* stored (or name one twice) completes without an exception.
C2_UniqueKeyNoFailure ==
    /\ \A id \in KeysOf(videos) : RowCount(videos, id) = 1
    /\ \A id \in KeysOf(committed) : RowCount(committed, id) = 1
    /\ (lastOp = "insert" /\ AllBindable(lastDf)) => lastResult = "ok"

C2_Witness ==
    /\ lastOp = "insert" /\ lastResult = "ok"
    /\ \E i \in 1..Len(lastDf) :
          lastDf[i].VideoID.str \in KeysOf(before.committed)

\* C3: a stored row is permanent and immutable: every committed row is, after
\* any operation, still committed and still visible with the same field
\* values, and every row the connection sees stays visible to it with the
\* same values under insert_videos, fetch_all_videos and _create_table.
C3_RowsNeverChange ==
    /\ \A i \in 1..Len(before.committed) :
          /\ InTable(before.committed[i], committed)
          /\ InTable(before.committed[i], videos)
    /\ lastOp # "connect" =>
          \A i \in 1..Len(before.videos) : InTable(before.videos[i], videos)

C3_Witness ==
    /\ lastOp = "insert" /\ lastResult = "ok"
    /\ \E i \in 1..Len(lastDf), j \in 1..Len(before.committed) :
          /\ before.committed[j].video_id = lastDf[i].VideoID.str
          /\ before.committed[j] # RowOf(lastDf[i])

\* The video_ids of df that were not stored before the call.
NewIds == IdsOf(lastDf) \ KeysOf(before.videos)

InitSchemaOps == {"create_table", "connect"}

\* C20: every run of _create_table, alone or as part of a DatabaseManager
\* construction, succeeds on a store that has the videos table, keeps every
\* committed row where it was with the same field values, both as committed
\* and as the connection sees it, and adds no row; a run that follows another
\* run changes neither the visible nor the committed table, so n >= 1 runs
\* leave the store as one run does.
C20_InitSchemaIdempotent ==
    [][lastOp' \in InitSchemaOps =>
          /\ lastResult' = "ok"
          /\ Len(committed') >= Len(committed)
          /\ Len(videos') >= Len(committed)
          /\ SubSeq(committed', 1, Len(committed)) = committed
          /\ SubSeq(videos', 1, Len(committed)) = committed
          /\ \A i \in 1..Len(videos') : InTable(videos'[i], videos)
          /\ lastOp \in InitSchemaOps =>
                /\ videos' = videos
                /\ committed' = committed]_vars

\* A run on a store that holds committed rows, which it left as they were.
C20_Witness ==
    /\ lastOp \in InitSchemaOps
    /\ Len(before.committed) > 0
    /\ before.committed = committed
    /\ before.videos = videos
    /\ videos = committed

\* An insert_videos call that raised left the table as it found it.
FailedInsertAddsNothing ==
    (lastOp = "insert" /\ lastResult = "error") => videos = before.videos

\* fetch_all_videos returns committed rows only: no row of a batch whose
\* insert_videos call raised.
FetchSeesNoFailedBatch ==
    lastOp = "fetch" => ret = FrameVal(committed)

\* What a successful insert_videos call commits are rows of its own batch:
\* no row left behind by a call that raised.
CommitsOwnBatchOnly ==
    (lastOp = "insert" /\ lastResult = "ok") =>
        \A i \in 1..Len(committed) :
            \/ InTable(committed[i], before.committed)
            \/ committed[i].video_id \in IdsOf(lastDf)

\* C23 as stated: insert_videos is all-or-nothing; when it raises on some
\* record of a batch, no record of the batch is in the videos table, neither
\* for a following fetch_all_videos on the same manager nor after a later
\* successful insert_videos call has committed.
C23_InsertAllOrNothing ==
    /\ FailedInsertAddsNothing
    /\ FetchSeesNoFailedBatch
    /\ CommitsOwnBatchOnly

(***************************************************************************)
(* data_utils.py                                                           *)
(***************************************************************************)
\* A raw API item is [id |-> a JSON value, snippet |-> a dict of strings].
FullSnippet ==
    [title |-> "T", description |-> "D", channelTitle |-> "Ch",
     publishedAt |-> "2024-01-01T00:00:00Z"]
OptionalKeys == {"description", "channelTitle", "publishedAt"}
SnippetKeys == {"title"} \cup OptionalKeys

\* The snippets the inputs are drawn from: complete, one key missing, only
\* the title, and empty.
SnippetKeySets ==
    {SnippetKeys, {"title"}, {}} \cup {SnippetKeys \ {k} : k \in SnippetKeys}
Snippets == {[k \in K |-> FullSnippet[k]] : K \in SnippetKeySets}

\* An identifier that contains the text "videoId".
IdWithKeyText == <<"x">> \o VideoIdKey

\* The id values the inputs are drawn from: the flat shape of videos().list,
\* the nested shape of search().list, and an id object without "videoId".
RawIds ==
    {StrVal(<<"a">>), ObjVal(VideoIdKey, <<"a">>), StrVal(<<"b">>),
     StrVal(IdWithKeyText), ObjVal(VideoIdKey, IdWithKeyText),
     ObjVal(ChannelIdKey, <<"c">>)}
RawItems == {[id |-> i, snippet |-> sn] : i \in RawIds, sn \in Snippets}

\* Line 10: video["id"]["videoId"] if "videoId" in video["id"] else video["id"].
\* Indexing a str with "videoId" raises TypeError.
ExtractId(id) ==
    IF PyIn(VideoIdKey, id)
    THEN IF id.shape = "obj"
         THEN [ok |-> TRUE, val |-> StrVal(id.str)]
         ELSE [ok |-> FALSE, val |-> id]
    ELSE [ok |-> TRUE, val |-> id]

\* snippet.get("title", ""): a missing title becomes the empty string.
TitleGetDefault(snippet) ==
    [ok |-> TRUE,
     val |-> IF "title" \in DOMAIN snippet THEN snippet["title"] ELSE ""]

\* Line 13: snippet["title"] raises KeyError when the key is missing.
TitleLookup(snippet) ==
    IF "title" \in DOMAIN snippet
    THEN [ok |-> TRUE, val |-> snippet["title"]]
    ELSE [ok |-> FALSE, val |-> ""]

\* Lines 14-16: snippet.get(key, "").
SnippetGet(snippet, key) ==
    IF key \in DOMAIN snippet THEN snippet[key] ELSE ""

NoRecord ==
    [VideoID |-> StrVal(<<>>), Title |-> "", Description |-> "",
     ChannelTitle |-> "", PublishedAt |-> ""]

\* Lines 9-17 for one item: the dict appended to data, or the exception.
NormalizeItem(video) ==
    LET snippet == video.snippet
        vid == ExtractId(video.id)
        title == TitleLookup(snippet)
    IN  IF ~vid.ok THEN [status |-> "TypeError", rec |-> NoRecord]
        ELSE IF ~title.ok THEN [status |-> "KeyError", rec |-> NoRecord]
        ELSE [status |-> "ok",
              rec |-> [VideoID |-> vid.val,
                       Title |-> title.val,
                       Description |-> SnippetGet(snippet, "description"),
                       ChannelTitle |-> SnippetGet(snippet, "channelTitle"),
                       PublishedAt |-> SnippetGet(snippet, "publishedAt")]]

\* The loop of lines 7-18: data grows in input order; an exception leaves the
\* caller without a DataFrame.
RECURSIVE NormalizeLoop(_, _)
NormalizeLoop(data, items) ==
    IF items = <<>> THEN [status |-> "ok", data |-> data]
    ELSE LET r == NormalizeItem(Head(items))
         IN  IF r.status = "ok"
             THEN NormalizeLoop(Append(data, r.rec), Tail(items))
             ELSE [status |-> r.status, data |-> <<>>]

\* DataProcessor.videos_to_dataframe(videos) as a function of its input.
DataFrameOf(items) == NormalizeLoop(<<>>, items)

NormInit ==
    /\ rawItems \in SeqsUpTo(RawItems, MaxItems)
    /\ npc = "start"
    /\ out = [status |-> "ok", data |-> <<>>]

\* DataProcessor.videos_to_dataframe(videos)
videos_to_dataframe ==
    /\ npc = "start"
    /\ out' = DataFrameOf(rawItems)
    /\ npc' = "done"
    /\ UNCHANGED rawItems

(***************************************************************************)
(* Properties of the normalizer                                            *)
(***************************************************************************)
\* The identifier string an id value carries in either of the two shapes,
\* and whether the value has one of the two shapes at all.
HasIdShape(id) == id.shape = "str" \/ id.key = VideoIdKey
IdString(id) == id.str

\* The same item with its identifier in the other shape.
OtherShape(video) ==
    IF video.id.shape = "str"
    THEN [video EXCEPT !.id = ObjVal(VideoIdKey, video.id.str)]
    ELSE IF video.id.key = VideoIdKey
         THEN [video EXCEPT !.id = StrVal(video.id.str)]
         ELSE video
OtherShapes(items) == [i \in 1..Len(items) |-> OtherShape(items[i])]

\* C5 as stated: for every identifier string s and every snippet the
\* normalizer gives the same result, with Video ID equal to s, whether the
\* item carries {videoId: s} or the flat value s.
C5_ShapeIndependent ==
    npc = "done" =>
        /\ DataFrameOf(OtherShapes(rawItems)) = out
        /\ out.status = "ok" =>
              \A i \in 1..Len(rawItems) :
                  HasIdShape(rawItems[i].id) =>
                      out.data[i].VideoID = StrVal(IdString(rawItems[i].id))

\* The same items with every missing optional snippet key filled in.
FillOptional(video) ==
    [video EXCEPT !.snippet =
        [k \in (DOMAIN video.snippet) \cup OptionalKeys |->
            IF k \in DOMAIN video.snippet THEN video.snippet[k]
            ELSE FullSnippet[k]]]
FillAll(items) == [i \in 1..Len(items) |-> FillOptional(items[i])]

\* C6: an item whose snippet has no title makes the call end in an error
\* with no record produced; a missing description, channelTitle or
\* publishedAt never changes whether the call succeeds, and the record of
\* such an item carries the empty string in each missing field.
C6_TitleRequiredOthersDefault ==
    npc = "done" =>
        /\ (\E i \in 1..Len(rawItems) :
                "title" \notin DOMAIN rawItems[i].snippet) =>
              (out.status # "ok" /\ out.data = <<>>)
        /\ (\A i \in 1..Len(rawItems) :
                /\ "title" \in DOMAIN rawItems[i].snippet
                /\ ExtractId(rawItems[i].id).ok) => out.status = "ok"
        /\ out.status = DataFrameOf(FillAll(rawItems)).status
        /\ out.status = "ok" =>
              /\ Len(out.data) = Len(rawItems)
              /\ \A i \in 1..Len(rawItems) :
                    LET sn == rawItems[i].snippet
                        rec == out.data[i]
                    IN  /\ rec.Title = sn["title"]
                        /\ rec.Description =
                              IF "description" \in DOMAIN sn
                              THEN sn["description"] ELSE ""
                        /\ rec.ChannelTitle =
                              IF "channelTitle" \in DOMAIN sn
                              THEN sn["channelTitle"] ELSE ""
                        /\ rec.PublishedAt =
                              IF "publishedAt" \in DOMAIN sn
                              THEN sn["publishedAt"] ELSE ""

C6_Witness ==
    /\ npc = "done" /\ out.status = "ok"
    /\ Len(rawItems) = 2
    /\ DOMAIN rawItems[1].snippet = {"title"}
    /\ out.data[1].Description = "" /\ out.data[1].ChannelTitle = ""
    /\ out.data[1].PublishedAt = ""
    /\ DOMAIN rawItems[2].snippet = SnippetKeys \ {"description"}

\* A well-formed raw item: a snippet with a title, and the identifier in one
\* of the two shapes of the API.
WellFormed(items) ==
    \A i \in 1..Len(items) :
        "title" \in DOMAIN items[i].snippet /\ HasIdShape(items[i].id)

\* C7 as stated: for every well-formed input the output has the length of
\* the input and its i-th record is the record of the i-th item, also when
\* two items carry the same video id.
C7_OrderPreserved ==
    (npc = "done" /\ WellFormed(rawItems)) =>
        /\ out.status = "ok"
        /\ Len(out.data) = Len(rawItems)
        /\ \A i \in 1..Len(rawItems) :
              /\ out.data[i].VideoID = StrVal(IdString(rawItems[i].id))
              /\ out.data[i].Title = rawItems[i].snippet["title"]
              /\ out.data[i].Description =
                    SnippetGet(rawItems[i].snippet, "description")

NormIdle ==
    /\ rawItems = <<>>
    /\ npc = "idle"
    /\ out = [status |-> "ok", data |-> <<>>]

(***************************************************************************)
(* youtube_analytics_app.py: session state and the store handle            *)
(***************************************************************************)
\* A channel_subscriber_count cell: a number, or missing (NaN).
NoSubs == [present |-> FALSE, n |-> 0]
Subs(k) == [present |-> TRUE, n |-> k]

\* pandas comparisons: any comparison with a missing value is False.
LeqNaN(cell, k) == cell.present /\ cell.n <= k
GeqNaN(cell, k) == cell.present /\ cell.n >= k

\* A DataFrame of search results: whether it has the column
\* 'channel_subscriber_count', and its rows in order.
EmptyFrame == [hasSubs |-> FALSE, rows |-> <<>>]
FilterRows(df, mask) ==
    [df EXCEPT !.rows = SelectSeq(df.rows, LAMBDA r : r \in mask)]

\* The rows calculate_search_metrics can return.
SearchRecords ==
    {[view_count |-> 1, channel_subscriber_count |-> NoSubs,
      channel_title |-> "Ch1"],
     [view_count |-> 3, channel_subscriber_count |-> Subs(2),
      channel_title |-> "Ch2"]}

\* data_processor.calculate_search_metrics(videos): the column exists when
\* some row has subscriber data, and may exist with every cell missing.
ProcessedFrames ==
    {[hasSubs |-> h, rows |-> rs] :
        h \in BOOLEAN, rs \in SeqsUpTo(SearchRecords, MaxResults)}
    \ {f \in [hasSubs : {FALSE}, rows : SeqsUpTo(SearchRecords, MaxResults)] :
          \E i \in 1..Len(f.rows) : f.rows[i].channel_subscriber_count.present}

\* The values of the sidebar's number inputs (lines 426-442).
MinViewsChoices == {0, 2}
MaxSubscribersChoices == {0, 2}

\* The search text of the sidebar, and the title get_channel_info reports.
SearchQueryText == <<"cats">>
ChannelTitle == "Ch1"

\* db_manager.save_search_history(...): a new entry with the next id.
HistoryEntry(type, query, total) ==
    [id |-> Len(history) + 1, search_type |-> type, search_query |-> query,
     total_results |-> total, saved_videos |-> 0]

\* Lines 228-232 and 612-616 with the key deleted instead of set to None.
HandleAfterSaveDropsKey(outcome) ==
    IF outcome = "ok" THEN "connected" ELSE "uninitialized"

\* Lines 228-232 and 612-616: a save that raises sets the handle to None.
HandleAfterSave(outcome) == IF outcome = "ok" THEN "connected" ELSE "none"

\* Lines 596-616 and 212-232: save_search_history, then save_video_results
\* under the returned id; any exception drops the handle.
\* outcome: "ok", "fail_history" or "fail_videos".
SaveSearch(type, query, total, nrecords, outcome) ==
    IF db_manager # "connected"
    THEN UNCHANGED dbVars
    ELSE /\ history' =
              IF outcome = "fail_history" THEN history
              ELSE Append(history,
                      [HistoryEntry(type, query, total) EXCEPT !.saved_videos =
                          IF outcome = "ok" THEN nrecords ELSE 0])
         /\ db_manager' = HandleAfterSave(outcome)
         /\ storeFailed' = (storeFailed \/ outcome # "ok")

SaveOutcomes == {"ok", "fail_history", "fail_videos"}

\* search_history_id, the id save_search_history returned to the run (0
\* when it was not called or raised).
ReturnedId(outcome) ==
    IF db_manager = "connected" /\ outcome # "fail_history"
    THEN Len(history) + 1 ELSE 0

NoVideoResults == [called |-> FALSE, search_history_id |-> 0, count |-> 0]

\* Lines 225 and 609 with the id of the entry before the one just written.
VideoResultsCallStaleId(search_history_id, videos_for_db) ==
    [called |-> TRUE, search_history_id |-> search_history_id - 1,
     count |-> Len(videos_for_db)]

\* Lines 223-226 and 608-610: save_video_results(search_history_id,
\* videos_for_db), videos_for_db holding one dict per row of processed_data.
VideoResultsCall(search_history_id, videos_for_db) ==
    [called |-> TRUE, search_history_id |-> search_history_id,
     count |-> Len(videos_for_db)]

\* The save_video_results call of a run: made when save_search_history was
\* called and returned.
VideoResults(outcome, videos_for_db) ==
    IF db_manager = "connected" /\ outcome # "fail_history"
    THEN VideoResultsCall(ReturnedId(outcome), videos_for_db)
    ELSE NoVideoResults

\* Lines 228 and 612 catching nothing: a failing save reaches the outer
\* handler of the run.
SaveErrorPropagates(save) == save \in {"none", "ok"}

\* Lines 228 and 612: except Exception as db_error catches whatever the save
\* raises, and the run goes on.
SaveErrorCaught(save) == TRUE

\* Writes are bounded: a run that would write needs room in the history.
CanRun(limit) == db_manager = "none" \/ Len(history) < limit

(***************************************************************************)
(* youtube_analytics_app.py: video_search_tab                              *)
(***************************************************************************)
\* Lines 579-582: the min-views filter is applied when min_views > 0.
ApplyMinViews(df, min_views) ==
    IF min_views > 0
    THEN FilterRows(df, {r \in SearchRecords : r.view_count >= min_views})
    ELSE df

\* Lines 584-588: the subscriber filter is applied when max_subscribers > 0
\* and the column exists; a missing cell compares False.
ApplyMaxSubscribers(df, max_subscribers) ==
    IF max_subscribers > 0 /\ df.hasSubs
    THEN FilterRows(df, {r \in SearchRecords :
            LeqNaN(r.channel_subscriber_count, max_subscribers)})
    ELSE df

\* Lines 579-588.
Threshold(df, min_views, max_subscribers) ==
    ApplyMaxSubscribers(ApplyMinViews(df, min_views), max_subscribers)

RECURSIVE SumViews(_)
SumViews(rows) ==
    IF rows = <<>> THEN 0 ELSE Head(rows).view_count + SumViews(Tail(rows))

\* A mean as the exact fraction sum/count (count 0: NaN).
MeanViews(rows) == [num |-> SumViews(rows), den |-> Len(rows)]

ChannelsOf(rows) == {rows[i].channel_title : i \in 1..Len(rows)}

\* The four st.metric values of one set of rows.
Aggregates(rows) ==
    [count |-> Len(rows), average |-> MeanViews(rows),
     total |-> SumViews(rows), unique |-> Cardinality(ChannelsOf(rows))]

\* Lines 656-669: the summary metrics are computed from df, the stored
\* processed_data.
SummaryMetrics(df, filtered_df) == Aggregates(df.rows)

SetMin(S) == CHOOSE x \in S : \A y \in S : x <= y
SetMax(S) == CHOOSE x \in S : \A y \in S : x >= y

\* The values a range slider can return: any (lo, hi) within its limits.
RangesIn(lo, hi) ==
    {r \in [set : {TRUE}, lo : lo..hi, hi : lo..hi] : r.lo <= r.hi}
NoRange == [set |-> FALSE, lo |-> 0, hi |-> 0]

PresentSubs(df) ==
    {df.rows[i].channel_subscriber_count.n : i \in
        {j \in 1..Len(df.rows) : df.rows[j].channel_subscriber_count.present}}

\* Lines 692-712: the subscriber slider exists when the column has a value;
\* its limits are the column's min and max (max + 1 when they are equal).
SubRanges(df) ==
    IF df.hasSubs /\ PresentSubs(df) # {}
    THEN LET lo == SetMin(PresentSubs(df))
             hi == SetMax(PresentSubs(df))
         IN  RangesIn(lo, IF lo = hi THEN lo + 1 ELSE hi)
    ELSE {NoRange}

\* Lines 714-729: the view-count slider.
ViewRanges(df) ==
    LET views == {df.rows[i].view_count : i \in 1..Len(df.rows)}
        lo == SetMin(views)
        hi == SetMax(views)
    IN  RangesIn(lo, IF lo = hi THEN lo + 1 ELSE hi)

\* Lines 731-743: filtered_df, the rows of the table and of the CSV export.
SliderFilter(df, sub_range, view_range) ==
    LET bySubs ==
            IF sub_range.set /\ df.hasSubs
            THEN FilterRows(df, {r \in SearchRecords :
                    GeqNaN(r.channel_subscriber_count, sub_range.lo)
                        /\ LeqNaN(r.channel_subscriber_count, sub_range.hi)})
            ELSE df
    IN  FilterRows(bySubs, {r \in SearchRecords :
            r.view_count >= view_range.lo /\ r.view_count <= view_range.hi})

\* value=(min, max): the value of a slider nobody has moved.
DefaultRange(ranges) ==
    CHOOSE r \in ranges : \A q \in ranges : r.lo <= q.lo /\ r.hi >= q.hi

NoSession == [present |-> FALSE, processed_data |-> EmptyFrame]
NoView ==
    [shown |-> FALSE, metrics |-> Aggregates(<<>>), filtered_df |-> EmptyFrame,
     sub_range |-> NoRange, view_range |-> NoRange]
NoRun ==
    [kind |-> "none", outcome |-> "none", save |-> "none",
     search_history_id |-> 0, video_results |-> NoVideoResults,
     fetched |-> EmptyFrame, min_views |-> 0, max_subscribers |-> 0,
     thresholded |-> EmptyFrame]

\* Lines 645-879: the display of the stored results, with the sliders'
\* values sub_range and view_range.
Display(data, sub_range, view_range) ==
    LET df == data.processed_data
        filtered_df == SliderFilter(df, sub_range, view_range)
    IN  [shown |-> TRUE, metrics |-> SummaryMetrics(df, filtered_df),
         filtered_df |-> filtered_df,
         sub_range |-> sub_range, view_range |-> view_range]

\* The session of channel_analysis_tab before its first run.
NoChannel ==
    [title |-> "", subscriber_count |-> 0, subscriber_count_hidden |-> FALSE]
NoChannelData ==
    [present |-> FALSE, channel_info |-> NoChannel, processed_data |-> <<>>]
NoOverview ==
    [total_videos |-> 0, label |-> "none", value |-> [num |-> 0, den |-> 0],
     total_views |-> 0]
NoChannelView == [shown |-> FALSE, overview |-> NoOverview, table |-> <<>>]
NoChannelRun ==
    [kind |-> "none", outcome |-> "none", save |-> "none",
     search_history_id |-> 0, video_results |-> NoVideoResults,
     channel_info |-> NoChannel, filtered |-> <<>>]

ChanInit ==
    /\ channel_analysis_data = NoChannelData
    /\ channelRun = NoChannelRun
    /\ channelView = NoChannelView

\* The session of search_history_tab before its first run.
NoHistoryView ==
    [kind |-> "none", rows |-> <<>>, popular_channels |-> <<>>,
     popular_videos |-> <<>>]

AppInit ==
    /\ db_manager = "uninitialized"
    /\ history = <<>>
    /\ storeFailed = FALSE
    /\ historyView = NoHistoryView
    /\ search_results_data = NoSession
    /\ searchRun = NoRun
    /\ searchView = NoView
    /\ ChanInit

\* Line 29: 'db_manager' not in st.session_state.
NeedsInit(handle) == handle = "uninitialized"

\* main, lines 28-37: the first run of the script connects to the store;
\* the handle is None when DatabaseManager() raises.
MainInit(connected) ==
    /\ NeedsInit(db_manager)
    /\ db_manager' = IF connected THEN "connected" ELSE "none"
    /\ UNCHANGED <<history, storeFailed>>

\* The tabs run after lines 28-37.
Initialized == db_manager # "uninitialized"

\* video_search_tab with no search keywords: lines 493-502.
SearchNoQuery ==
    /\ Initialized
    /\ searchRun' = [NoRun EXCEPT !.kind = "no_query"]
    /\ searchView' = NoView
    /\ UNCHANGED <<dbVars, search_results_data>>

\* video_search_tab with the button pressed and the API call raising:
\* lines 554-559 and 635-643.
SearchApiError(min_views, max_subscribers) ==
    /\ Initialized
    /\ searchRun' = [NoRun EXCEPT !.kind = "search", !.outcome = "error",
                                  !.min_views = min_views,
                                  !.max_subscribers = max_subscribers]
    /\ searchView' = NoView
    /\ UNCHANGED <<dbVars, search_results_data>>

\* video_search_tab with the button pressed: lines 504-633, then the display
\* of lines 645-879. fetched is what calculate_search_metrics returns for
\* the videos of search_videos.
SearchPressed(fetched, min_views, max_subscribers, saveOutcome) ==
    LET processed_data == Threshold(fetched, min_views, max_subscribers)
        run == [kind |-> "search", outcome |-> "stored",
                save |-> IF db_manager = "connected" THEN saveOutcome
                         ELSE "none",
                search_history_id |-> ReturnedId(saveOutcome),
                video_results |->
                    VideoResults(saveOutcome, processed_data.rows),
                fetched |-> fetched,
                min_views |-> min_views, max_subscribers |-> max_subscribers,
                thresholded |-> processed_data]
        data == [present |-> TRUE, processed_data |-> processed_data]
    IN  IF fetched.rows = <<>>
        THEN \* lines 561-565: no videos
             /\ Initialized
             /\ searchRun' = [run EXCEPT !.outcome = "no_videos",
                                         !.save = "none",
                                         !.search_history_id = 0,
                                         !.video_results = NoVideoResults,
                                         !.thresholded = EmptyFrame]
             /\ searchView' = NoView
             /\ UNCHANGED <<dbVars, search_results_data>>
        ELSE IF processed_data.rows = <<>>
        THEN \* lines 590-594: nothing passes the filters
             /\ Initialized
             /\ searchRun' = [run EXCEPT !.outcome = "filtered_empty",
                                         !.save = "none",
                                         !.search_history_id = 0,
                                         !.video_results = NoVideoResults]
             /\ searchView' = NoView
             /\ UNCHANGED <<dbVars, search_results_data>>
        ELSE /\ Initialized
             /\ db_manager = "none" => saveOutcome = "ok"
             /\ SaveSearch("video_search", SearchQueryText,
                           Len(processed_data.rows),
                           Len(processed_data.rows), saveOutcome)
             /\ IF SaveErrorCaught(run.save)
                THEN \* lines 618-630, then the display
                     /\ search_results_data' = data
                     /\ searchRun' = run
                     \* the sliders of new results start at their full range
                     /\ searchView' =
                           Display(data,
                                   DefaultRange(SubRanges(processed_data)),
                                   DefaultRange(ViewRanges(processed_data)))
                ELSE \* lines 635-643
                     /\ searchRun' = [run EXCEPT !.outcome = "error"]
                     /\ searchView' = NoView
                     /\ UNCHANGED search_results_data

\* video_search_tab without the button: lines 504 and 645-879 re-render the
\* stored results with the values the user gave the sliders.
SearchRerun ==
    /\ search_results_data.present
    /\ \E sub_range \in SubRanges(search_results_data.processed_data),
          view_range \in ViewRanges(search_results_data.processed_data) :
          searchView' = Display(search_results_data, sub_range, view_range)
    /\ searchRun' = [NoRun EXCEPT !.kind = "rerun", !.outcome = "shown"]
    /\ UNCHANGED <<dbVars, search_results_data>>

(***************************************************************************)
(* Properties of video_search_tab                                          *)
(***************************************************************************)
\* C8 as stated: the thresholding retains exactly the rows with
\* view_count >= min_views that have no subscriber data or have
\* channel_subscriber_count <= max_subscribers; a row without subscriber
\* data is never removed by the subscriber filter.
C8_ThresholdKeepsMissing ==
    (searchRun.kind = "search"
        /\ searchRun.outcome \in {"stored", "filtered_empty"}) =>
        searchRun.thresholded.rows =
            SelectSeq(searchRun.fetched.rows, LAMBDA r :
                /\ r.view_count >= searchRun.min_views
                /\ \/ ~r.channel_subscriber_count.present
                   \/ r.channel_subscriber_count.n <= searchRun.max_subscribers)

\* C9 as stated: whatever the thresholds and the sliders are, the displayed
\* metrics (video count, average views, total views, unique channels) are
\* those of the filtered set shown in the table and exported.
C9_MetricsOfFilteredSet ==
    searchView.shown =>
        searchView.metrics = Aggregates(searchView.filtered_df.rows)

(***************************************************************************)
(* youtube_analytics_app.py: channel_analysis_tab, date filtering          *)
(***************************************************************************)
Days == 0..MaxDay
Ticks == 0..(TicksPerDay - 1)

\* The values of start_date and end_date: None, a datetime.date (what
\* st.date_input returns) or a datetime.datetime (datetime.now() - timedelta).
NoDate == [kind |-> "None", day |-> 0, tick |-> 0]
DateVal(d) == [kind |-> "date", day |-> d, tick |-> 0]
DateTimeVal(d, t) == [kind |-> "datetime", day |-> d, tick |-> t]

\* Python truth of a bound: None is false, a date or datetime is true.
Truthy(b) == b.kind # "None"

\* A bound normalised to an instant: a date is 00:00:00 of its day.
BoundInstant(b) ==
    b.day * TicksPerDay + (IF b.kind = "datetime" THEN b.tick ELSE 0)

\* A video's publishedAt timestamp parsed to an instant.
PublishedInstant(v) == v.published.day * TicksPerDay + v.published.tick

\* The widths, in days, of the "Last ... Days" windows (scaled down).
WindowChoices == {1, 2}

\* Lines 86-104: what the "Filter by Date" selectbox makes of start_date and
\* end_date: both None, two dates of st.date_input, or a window ending now.
DateSelections ==
    {[start |-> NoDate, end |-> NoDate]}
    \cup {[start |-> DateVal(a), end |-> DateVal(b)] : a \in Days, b \in Days}
    \cup {[start |-> DateTimeVal(d - w, t), end |-> DateTimeVal(d, t)] :
            d \in Days, t \in Ticks, w \in WindowChoices}

\* Lines 114-136: the same for the "Filter by Upload Date" selectbox.
UploadSelections ==
    {[start |-> NoDate, end |-> NoDate],
     [start |-> DateVal(0), end |-> DateVal(1)],
     [start |-> DateVal(1), end |-> DateVal(MaxDay)]}

\* The videos get_channel_videos returns: one per instant of the calendar.
ChannelVideoRecords ==
    {[published |-> [day |-> d, tick |-> t], view_count |-> d + 1] :
        d \in Days, t \in Ticks}

\* data_processor.filter_videos_by_date(videos, start, end): the videos
\* published within [start, end], both ends included, in input order; a
\* bound that is None does not bound.
filter_videos_by_date(vs, start, end) ==
    SelectSeq(vs, LAMBDA v :
        /\ Truthy(start) => BoundInstant(start) <= PublishedInstant(v)
        /\ Truthy(end) => PublishedInstant(v) <= BoundInstant(end))

\* Lines 198-206 with the arguments of the first call swapped.
ApplyDateFiltersSwapped(vs, start_date, end_date, upload_start, upload_end) ==
    LET byDate ==
            IF Truthy(start_date) /\ Truthy(end_date)
            THEN filter_videos_by_date(vs, end_date, start_date)
            ELSE vs
    IN  IF Truthy(upload_start) /\ Truthy(upload_end)
        THEN filter_videos_by_date(byDate, upload_start, upload_end)
        ELSE byDate

\* Lines 198-206 with a missing bound read as the first day of the calendar.
ApplyDateFiltersNoneAsZero(vs, start_date, end_date, upload_start, upload_end) ==
    LET OrZero(b) == IF Truthy(b) THEN b ELSE DateVal(0)
        byDate == filter_videos_by_date(vs, OrZero(start_date),
                                        OrZero(end_date))
    IN  IF Truthy(upload_start) /\ Truthy(upload_end)
        THEN filter_videos_by_date(byDate, upload_start, upload_end)
        ELSE byDate

\* Lines 198-206: each filter is applied when both of its bounds are set.
ApplyDateFilters(vs, start_date, end_date, upload_start, upload_end) ==
    LET byDate ==
            IF Truthy(start_date) /\ Truthy(end_date)
            THEN filter_videos_by_date(vs, start_date, end_date)
            ELSE vs
    IN  IF Truthy(upload_start) /\ Truthy(upload_end)
        THEN filter_videos_by_date(byDate, upload_start, upload_end)
        ELSE byDate

DateIdle ==
    /\ channelVideos = <<>>
    /\ dateOptions = [date |-> [start |-> NoDate, end |-> NoDate],
                      upload |-> [start |-> NoDate, end |-> NoDate]]
    /\ dpc = "idle"
    /\ filteredVideos = <<>>

\* The bounds a caller of filter_videos_by_date can pass: each one None or
\* a date.
OptionalBounds ==
    LET Bound == {NoDate} \cup {DateVal(d) : d \in Days}
    IN  [start : Bound, end : Bound]

\* Either channel_analysis_tab has fetched the videos and is about to filter
\* them (dpc = "start"), or filter_videos_by_date is about to be called on
\* its own (dpc = "call").
DateInit ==
    /\ channelVideos \in SeqsUpTo(ChannelVideoRecords, MaxVideos)
    /\ \/ /\ dateOptions \in [date : DateSelections, upload : UploadSelections]
          /\ dpc = "start"
       \/ /\ dateOptions \in
                [date : OptionalBounds,
                 upload : {[start |-> NoDate, end |-> NoDate]}]
          /\ dpc = "call"
    /\ filteredVideos = <<>>

\* Lines 198-206 of channel_analysis_tab.
filter_by_dates ==
    /\ dpc = "start"
    /\ filteredVideos' =
          ApplyDateFilters(channelVideos, dateOptions.date.start,
                           dateOptions.date.end, dateOptions.upload.start,
                           dateOptions.upload.end)
    /\ dpc' = "done"
    /\ UNCHANGED <<channelVideos, dateOptions>>

\* A call of data_processor.filter_videos_by_date(videos, start, end).
call_filter_videos_by_date ==
    /\ dpc = "call"
    /\ filteredVideos' =
          filter_videos_by_date(channelVideos, dateOptions.date.start,
                                dateOptions.date.end)
    /\ dpc' = "called"
    /\ UNCHANGED <<channelVideos, dateOptions>>

(***************************************************************************)
(* Properties of the date filtering                                        *)
(***************************************************************************)
Retained(v) == \E i \in 1..Len(filteredVideos) : filteredVideos[i] = v

InRange(v, sel) ==
    /\ BoundInstant(sel.start) <= PublishedInstant(v)
    /\ PublishedInstant(v) <= BoundInstant(sel.end)

BothGiven(sel) == Truthy(sel.start) /\ Truthy(sel.end)

\* C10: with start and end given, a video is retained if and only if
\* start <= published <= end (and it passes the upload-date range, when
\* that one is given), both bounds included: a video published exactly at
\* start_date 00:00:00 or exactly at the end bound is retained.
C10_DateFilterInclusive ==
    (dpc = "done" /\ BothGiven(dateOptions.date)) =>
        \A i \in 1..Len(channelVideos) :
            LET v == channelVideos[i]
            IN  Retained(v) <=>
                    /\ InRange(v, dateOptions.date)
                    /\ BothGiven(dateOptions.upload) =>
                          InRange(v, dateOptions.upload)

C10_Witness ==
    /\ dpc = "done"
    /\ dateOptions.date.start.kind = "date"
    /\ dateOptions.date.start # dateOptions.date.end
    /\ Len(channelVideos) = 2
    /\ PublishedInstant(channelVideos[1]) = BoundInstant(dateOptions.date.start)
    /\ PublishedInstant(channelVideos[2]) = BoundInstant(dateOptions.date.end)
    /\ filteredVideos = channelVideos

OnlyStart(sel) == Truthy(sel.start) /\ ~Truthy(sel.end)
OnlyEnd(sel) == ~Truthy(sel.start) /\ Truthy(sel.end)
NoneGiven(sel) == ~Truthy(sel.start) /\ ~Truthy(sel.end)

NaN == [num |-> 0, den |-> 0]
Quotient(n, d) == [num |-> n, den |-> d]
IsNaN(x) == x.den = 0

\* What get_channel_info returns for a channel that exists: a hidden
\* subscriber count is reported as 0.
ChannelInfos ==
    {[title |-> ChannelTitle, subscriber_count |-> c.n,
      subscriber_count_hidden |-> c.hidden] :
        c \in {[n |-> 0, hidden |-> TRUE], [n |-> 0, hidden |-> FALSE],
               [n |-> 2, hidden |-> FALSE]}}

\* data_processor.calculate_metrics(videos, subscriber_count): one row per
\* video, in order; views_per_subscriber is view_count / subscriber_count
\* when subscriber_count > 0 and is undefined (NaN) otherwise.
calculate_metrics(vs, subscriber_count) ==
    [i \in 1..Len(vs) |->
        [published |-> vs[i].published, view_count |-> vs[i].view_count,
         views_per_subscriber |->
            IF subscriber_count > 0
            THEN Quotient(vs[i].view_count, subscriber_count)
            ELSE NaN]]

\* df['views_per_subscriber'].mean(): the mean of the cells that are not
\* NaN (the cells of one frame share their denominator), NaN if there is none.
MeanRatio(df) ==
    LET cells == SelectSeq(df, LAMBDA r : ~IsNaN(r.views_per_subscriber))
        nums == [i \in 1..Len(cells) |->
                    [view_count |-> cells[i].views_per_subscriber.num]]
    IN  IF cells = <<>> THEN NaN
        ELSE Quotient(SumViews(nums),
                      cells[1].views_per_subscriber.den * Len(cells))

\* Lines 264-283 with the ratio shown whatever the subscriber count is.
ChannelOverviewNoFallback(channel_info, df) ==
    [total_videos |-> Len(df), label |-> "Avg Views/Subscriber",
     value |-> MeanRatio(df), total_views |-> SumViews(df)]

\* Lines 264-283: the four st.metric values of the channel overview; the
\* third is the average ratio when the channel has subscribers and the
\* average views per video otherwise.
ChannelOverview(channel_info, df) ==
    [total_videos |-> Len(df),
     label |-> IF channel_info.subscriber_count > 0
               THEN "Avg Views/Subscriber" ELSE "Avg Views per Video",
     value |-> IF channel_info.subscriber_count > 0
               THEN MeanRatio(df) ELSE MeanViews(df),
     total_views |-> SumViews(df)]

\* Lines 319-320: f"{x:.4f}", the ratio rounded to a whole number of
\* ten-thousandths, and the text "nan" for NaN.
FormatRatio(x) ==
    IF IsNaN(x) THEN [text |-> "nan", tenThousandths |-> 0]
    ELSE [text |-> "number",
          tenThousandths |-> (2 * 10000 * x.num + x.den) \div (2 * x.den)]

\* Lines 255-395: the display of the stored channel analysis.
ChannelDisplay(data) ==
    [shown |-> TRUE,
     overview |-> ChannelOverview(data.channel_info, data.processed_data),
     table |-> [i \in 1..Len(data.processed_data) |->
                  [Views |-> data.processed_data[i].view_count,
                   ViewsPerSubscriber |->
                      FormatRatio(data.processed_data[i].views_per_subscriber)]]]

\* channel_analysis_tab with no channel id: lines 151-160.
ChannelNoId ==
    /\ Initialized
    /\ channelRun' = [NoChannelRun EXCEPT !.kind = "no_id"]
    /\ channelView' = NoChannelView
    /\ UNCHANGED <<dbVars, channel_analysis_data>>

\* Lines 244-252 dropping the stored analysis when the run fails.
ChannelAbortedClearsSession(outcome) ==
    /\ db_manager # "uninitialized"
    /\ outcome \in {"api_error", "not_found", "no_videos"}
    /\ channelRun' = [NoChannelRun EXCEPT !.kind = "analyze",
                                          !.outcome = outcome]
    /\ channelView' = NoChannelView
    /\ channel_analysis_data' = NoChannelData
    /\ UNCHANGED dbVars

\* channel_analysis_tab with the button pressed and no analysis made:
\* get_channel_info or get_channel_videos raises (lines 244-252), or
\* returns nothing (lines 176-180 and 188-190). Every one of them returns
\* before the display.
ChannelAborted(outcome) ==
    /\ Initialized
    /\ outcome \in {"api_error", "not_found", "no_videos"}
    /\ channelRun' = [NoChannelRun EXCEPT !.kind = "analyze",
                                          !.outcome = outcome]
    /\ channelView' = NoChannelView
    /\ UNCHANGED <<dbVars, channel_analysis_data>>

\* Line 217: f"Channel: {channel_info['title']}".
ChannelQuery(channel_info) == <<"Channel: ", channel_info.title>>

\* channel_analysis_tab with the button pressed: lines 162-242, then the
\* display of lines 255-395.
ChannelAnalyze(channel_info, vs, sel, saveOutcome) ==
    LET filtered == ApplyDateFilters(vs, sel.date.start, sel.date.end,
                                     sel.upload.start, sel.upload.end)
        processed_data ==
            calculate_metrics(filtered, channel_info.subscriber_count)
        data == [present |-> TRUE, channel_info |-> channel_info,
                 processed_data |-> processed_data]
        run == [kind |-> "analyze", outcome |-> "stored",
                save |-> IF db_manager = "connected" THEN saveOutcome
                         ELSE "none",
                search_history_id |-> ReturnedId(saveOutcome),
                video_results |-> VideoResults(saveOutcome, processed_data),
                channel_info |-> channel_info, filtered |-> filtered]
    IN  /\ vs # <<>>
        /\ Initialized
        /\ db_manager = "none" => saveOutcome = "ok"
        /\ SaveSearch("channel", ChannelQuery(channel_info),
                      Len(filtered), Len(processed_data), saveOutcome)
        /\ IF SaveErrorCaught(run.save)
           THEN \* lines 234-239, then the display
                /\ channel_analysis_data' = data
                /\ channelRun' = run
                /\ channelView' = ChannelDisplay(data)
           ELSE \* lines 244-252
                /\ channelRun' = [run EXCEPT !.outcome = "api_error"]
                /\ channelView' = NoChannelView
                /\ UNCHANGED channel_analysis_data

\* Lines 162-255 with the save outside of `if analyze_button`: showing the
\* stored analysis again saves it again.
ChannelRerunSaves ==
    /\ channel_analysis_data.present
    /\ channelRun' = [NoChannelRun EXCEPT !.kind = "rerun",
                                          !.outcome = "shown"]
    /\ channelView' = ChannelDisplay(channel_analysis_data)
    /\ IF db_manager = "connected" /\ Len(history) < MaxSessionHistory
       THEN SaveSearch("channel",
                       ChannelQuery(channel_analysis_data.channel_info),
                       Len(channel_analysis_data.processed_data),
                       Len(channel_analysis_data.processed_data), "ok")
       ELSE UNCHANGED dbVars
    /\ UNCHANGED channel_analysis_data

\* channel_analysis_tab without the button: lines 162 and 255-395 show the
\* stored analysis again.
ChannelRerun ==
    /\ channel_analysis_data.present
    /\ channelRun' = [NoChannelRun EXCEPT !.kind = "rerun",
                                          !.outcome = "shown"]
    /\ channelView' = ChannelDisplay(channel_analysis_data)
    /\ UNCHANGED <<dbVars, channel_analysis_data>>

\* The videos and the date selections the analyses are run on.
MidnightVideos ==
    {v \in ChannelVideoRecords : v.published.tick = 0 /\ v.published.day <= 1}
AnalysisSelections ==
    LET none == [start |-> NoDate, end |-> NoDate]
    IN  {[date |-> none, upload |-> none],
         [date |-> [start |-> DateVal(1), end |-> DateVal(MaxDay)],
          upload |-> none],
         [date |-> none,
          upload |-> [start |-> DateVal(0), end |-> DateVal(1)]]}

get_search_history(h, limit) ==
    LET n == IF Len(h) < limit THEN Len(h) ELSE limit
    IN  [k \in 1..n |-> h[Len(h) + 1 - k]]

\* The entries of one search type with one query, by their position in
\* the ledger (a later position is a more recent search).
Occurrences(h, search_type, q) ==
    {i \in 1..Len(h) :
        h[i].search_type = search_type /\ h[i].search_query = q}

\* db.get_popular_searches(search_type, limit): the queries of that type
\* with their counts, the most frequent first and, among equal counts, the
\* most recently searched first; at most limit of them.
get_popular_searches(h, search_type, limit) ==
    LET Q == {h[i].search_query :
                i \in {j \in 1..Len(h) : h[j].search_type = search_type}}
        Count(q) == Cardinality(Occurrences(h, search_type, q))
        Latest(q) == SetMax(Occurrences(h, search_type, q))
        Before(p, q) ==
            \/ Count(p) > Count(q)
            \/ Count(p) = Count(q) /\ Latest(p) > Latest(q)
        Rank(q) == 1 + Cardinality({p \in Q : Before(p, q)})
        n == IF Cardinality(Q) < limit THEN Cardinality(Q) ELSE limit
    IN  [k \in 1..n |->
            LET q == CHOOSE x \in Q : Rank(x) = k
            IN  [search_query |-> q, search_count |-> Count(q)]]

\* Lines 993-995 and 981 with the two search types exchanged.
PopularListsSwapped(h) ==
    [popular_channels |-> get_popular_searches(h, "video_search", 5),
     popular_videos |-> get_popular_searches(h, "channel", 5)]

\* Lines 981 and 993-995: the two lists of popular searches.
PopularLists(h) ==
    [popular_channels |-> get_popular_searches(h, "channel", 5),
     popular_videos |-> get_popular_searches(h, "video_search", 5)]

ReadOutcomes == {"ok", "fail_history", "fail_popular"}
HistoryTypeFilters == {"All", "Channel Analysis", "Video Search"}

\* Lines 928-936: the rows of the selected search type.
FilterHistory(rows, search_type_filter) ==
    CASE search_type_filter = "Channel Analysis" ->
            SelectSeq(rows, LAMBDA e : e.search_type = "channel")
      [] search_type_filter = "Video Search" ->
            SelectSeq(rows, LAMBDA e : e.search_type = "video_search")
      [] OTHER -> rows

\* search_history_tab, lines 882-1023. outcome says which store read
\* raises, if any: "ok", "fail_history" or "fail_popular". An exception
\* is reported (lines 1021-1023) and leaves the handle as it is.
HistoryTab(outcome, search_type_filter) ==
    /\ Initialized
    /\ UNCHANGED <<db_manager, history>>
    /\ IF db_manager # "connected"
       THEN \* lines 886-893
            /\ outcome = "ok"
            /\ historyView' = [NoHistoryView EXCEPT !.kind = "unavailable"]
            /\ UNCHANGED storeFailed
       ELSE IF outcome = "fail_history"
       THEN /\ historyView' = [NoHistoryView EXCEPT !.kind = "error"]
            /\ storeFailed' = TRUE
       ELSE IF history = <<>>
       THEN \* lines 900-904
            /\ outcome = "ok"
            /\ historyView' = [NoHistoryView EXCEPT !.kind = "empty"]
            /\ UNCHANGED storeFailed
       ELSE LET rows == FilterHistory(get_search_history(history, 100),
                                     search_type_filter)
            IN  IF rows = <<>>
                THEN \* line 1018: no row matches the filter
                     /\ outcome = "ok"
                     /\ historyView' =
                           [NoHistoryView EXCEPT !.kind = "no_match"]
                     /\ UNCHANGED storeFailed
                ELSE IF outcome = "fail_popular"
                THEN /\ historyView' =
                           [NoHistoryView EXCEPT !.kind = "error"]
                     /\ storeFailed' = TRUE
                ELSE /\ historyView' =
                           [kind |-> "shown", rows |-> rows,
                            popular_channels |->
                                PopularLists(history).popular_channels,
                            popular_videos |->
                                PopularLists(history).popular_videos]
                     /\ UNCHANGED storeFailed

\* The ledgers a session can find in the store: entries of both search
\* types with one of two queries, numbered in the order they were written.
LedgerQueries == {<<"A">>, <<"B">>}
SearchTypes == {"channel", "video_search"}
Ledgers ==
    SeqsUpTo([id : {0}, search_type : SearchTypes,
              search_query : LedgerQueries, total_results : {0},
              saved_videos : {0}], MaxLedger)
Numbered(h) == [i \in 1..Len(h) |-> [h[i] EXCEPT !.id = i]]

\* A session that starts on a store with a ledger.
LedgerInit ==
    /\ db_manager = "uninitialized"
    /\ history \in {Numbered(h) : h \in Ledgers}
    /\ storeFailed = FALSE
    /\ historyView = NoHistoryView
    /\ search_results_data = NoSession
    /\ searchRun = NoRun
    /\ searchView = NoView
    /\ ChanInit

\* A call of db.get_popular_searches(search_type, limit).
call_get_popular_searches(search_type, limit) ==
    /\ db_manager = "connected"
    /\ popularCall' =
          [search_type |-> search_type, limit |-> limit, pc |-> "done",
           result |-> get_popular_searches(history, search_type, limit)]
    /\ UNCHANGED <<searchCall, searchOutcome>>

(***************************************************************************)
(* Properties of search_history_tab                                        *)
(***************************************************************************)
\* How often, and how recently, a query of one search type was searched.
TimesSearched(t, q) ==
    Cardinality({i \in 1..Len(history) :
        history[i].search_type = t /\ history[i].search_query = q})
LastSearched(t, q) ==
    SetMax({0} \cup {i \in 1..Len(history) :
        history[i].search_type = t /\ history[i].search_query = q})

\* r lists at most limit queries of type t, each once, with its number of
\* entries of that type, more frequent ones first and, among equally
\* frequent ones, the more recently searched first.
IsPopularList(r, t, limit) ==
    /\ Len(r) <= limit
    /\ \A k \in 1..Len(r) :
          /\ r[k].search_count = TimesSearched(t, r[k].search_query)
          /\ r[k].search_count > 0
    /\ \A j, k \in 1..Len(r) :
          j < k =>
            /\ r[j].search_query # r[k].search_query
            /\ \/ r[j].search_count > r[k].search_count
               \/ /\ r[j].search_count = r[k].search_count
                  /\ LastSearched(t, r[j].search_query)
                        > LastSearched(t, r[k].search_query)

\* C18: get_popular_searches(search_type, limit) returns at most limit
\* (query, count) pairs; count is the number of entries of that search type
\* with exactly that query; the pairs are ordered by count, descending, and
\* among equal counts the more recently searched query comes first; the
\* other type's entries are not counted.  The two lists of the history tab
\* are those of 'channel' and of 'video_search'.
C18_PopularSearches ==
    /\ popularCall.pc = "done" =>
          IsPopularList(popularCall.result, popularCall.search_type,
                        popularCall.limit)
    /\ historyView.kind = "shown" =>
          /\ IsPopularList(historyView.popular_channels, "channel", 5)
          /\ IsPopularList(historyView.popular_videos, "video_search", 5)

\* Two channel queries searched once each, the later one listed first, and
\* a video search of the same text counted apart.
C18_Witness ==
    /\ historyView.kind = "shown"
    /\ Len(historyView.popular_channels) = 2
    /\ historyView.popular_channels[1].search_count = 1
    /\ historyView.popular_channels[2].search_count = 1
    /\ Len(historyView.popular_videos) = 1
    /\ historyView.popular_videos[1].search_query
          = historyView.popular_channels[2].search_query
    /\ popularCall.pc = "done"
    /\ popularCall.limit = 1
    /\ Len(popularCall.result) = 1

(***************************************************************************)
(* youtube_service.py: YouTubeService.search_videos                        *)
(***************************************************************************)
\* The values of max_results a caller can pass; the slider of lines 450-455
\* gives 5..50 of them.
MaxResultsArgs == 0..51

\* What the API can make of one request: the items, or an error response.
Responses == {"items", "HttpError"}

NoCall == [max_results |-> 10, pc |-> "idle"]
NoOutcome == [requests |-> 0, raised |-> "none"]

NoPopularCall ==
    [search_type |-> "channel", limit |-> 0, pc |-> "idle", result |-> <<>>]

ApiIdle ==
    /\ searchCall = NoCall
    /\ searchOutcome = NoOutcome
    /\ popularCall = NoPopularCall

ApiInit ==
    /\ searchCall \in [max_results : MaxResultsArgs, pc : {"start"}]
    /\ searchOutcome = NoOutcome
    /\ popularCall = NoPopularCall

\* Lines 9-31: search_videos builds the request with maxResults=max_results
\* and executes it; execute() raises when the API answers with an error.
SearchVideosResult(max_results, response) ==
    [requests |-> 1,
     raised |-> IF response = "items" THEN "none" ELSE response]

search_videos ==
    /\ searchCall.pc = "start"
    /\ \E response \in Responses :
          searchOutcome' = SearchVideosResult(searchCall.max_results, response)
    /\ searchCall' = [searchCall EXCEPT !.pc = "done"]
    /\ UNCHANGED popularCall

\* C17 as stated: search_videos called with max_results outside [1, 50]
\* fails with InvalidArgument before any request is sent; with max_results
\* inside [1, 50] it raises no InvalidArgument.
C17_InvalidArgumentBeforeRequest ==
    searchCall.pc = "done" =>
        IF searchCall.max_results \notin 1..50
        THEN /\ searchOutcome.raised = "InvalidArgument"
             /\ searchOutcome.requests = 0
        ELSE searchOutcome.raised # "InvalidArgument"

(***************************************************************************)
(* Properties of the session and its store handle                          *)
(***************************************************************************)
\* C13 as stated: once a store operation has failed while the handle was
\* connected, the session holds no handle (its view of the store is
\* Degraded) and no later run writes to the store: the handle stays None
\* and the ledger stays as it is.
C13_FailSoft ==
    [][storeFailed =>
          /\ db_manager = "none"
          /\ db_manager' = "none"
          /\ history' = history]_vars

\* The states of the store handle as the session sees it: Uninitialized is
\* "uninitialized", Connected is "connected", Degraded is "none"; nothing in
\* the code closes the handle ("closed").
SpecTransitions ==
    {<<"uninitialized", "connected">>, <<"connected", "none">>,
     <<"none", "connected">>, <<"connected", "closed">>,
     <<"none", "closed">>}

C15_SaveFailureNonFatal ==
    /\ (channelRun.kind = "analyze"
            /\ channelRun.save \in {"fail_history", "fail_videos"}) =>
          /\ channelRun.outcome = "stored"
          /\ channel_analysis_data =
                [present |-> TRUE, channel_info |-> channelRun.channel_info,
                 processed_data |->
                    calculate_metrics(channelRun.filtered,
                        channelRun.channel_info.subscriber_count)]
          /\ channelView = ChannelDisplay(channel_analysis_data)
    /\ (searchRun.kind = "search"
            /\ searchRun.save \in {"fail_history", "fail_videos"}) =>
          /\ searchRun.outcome = "stored"
          /\ search_results_data =
                [present |-> TRUE, processed_data |-> searchRun.thresholded]
          /\ searchView.shown
          /\ searchView.filtered_df =
                SliderFilter(searchRun.thresholded, searchView.sub_range,
                             searchView.view_range)

C15_Witness ==
    /\ searchRun.save = "fail_videos"
    /\ db_manager = "none"
    /\ search_results_data.present
    /\ searchView.shown
    /\ Len(searchView.filtered_df.rows) = 1

\* C16: a run whose upstream API call fails (get_channel_info,
\* get_channel_videos or search_videos raises) writes no search-history
\* entry and no video row, and leaves channel_analysis_data and
\* search_results_data as they were.
C16_ApiFailureCommitsNothing ==
    [][(\/ /\ channelRun' # channelRun
             /\ channelRun'.kind = "analyze"
             /\ channelRun'.outcome = "api_error"
          \/ /\ searchRun' # searchRun
             /\ searchRun'.kind = "search"
             /\ searchRun'.outcome = "error")
        => /\ history' = history
           /\ videos' = videos
           /\ committed' = committed
           /\ channel_analysis_data' = channel_analysis_data
           /\ search_results_data' = search_results_data]_vars

\* An analysis has failed at the API after an earlier one was stored and
\* saved.
C16_Witness ==
    /\ channelRun.kind = "analyze"
    /\ channelRun.outcome = "api_error"
    /\ channel_analysis_data.present
    /\ history # <<>>

\* A run of the channel or of the search tab that went through and whose
\* save_search_history call returned an id.
ChannelSaved(run) ==
    run.kind = "analyze" /\ run.outcome = "stored" /\ run.search_history_id > 0
SearchSaved(run) ==
    run.kind = "search" /\ run.outcome = "stored" /\ run.search_history_id > 0

RunLinked(run) ==
    /\ run.video_results.called =>
          /\ run.search_history_id > 0
          /\ run.video_results.search_history_id = run.search_history_id
    /\ run.search_history_id > 0 =>
          /\ run.search_history_id <= Len(history)
          /\ run.video_results.called
          /\ LET entry == history[run.search_history_id]
             IN  /\ entry.id = run.search_history_id
                 /\ entry.total_results = run.video_results.count

\* C22: for every entry written by a channel analysis or a video search,
\* total_results is the number of video records passed to
\* save_video_results under that entry's id in the same run, and
\* save_video_results is only called with the id that the run's
\* save_search_history call returned just before.
C22_TotalResultsLinked ==
    /\ RunLinked(channelRun)
    /\ RunLinked(searchRun)

\* A video search saved as entry 1 and a channel analysis saved as entry 2,
\* one with a video record and one with none.
C22_Witness ==
    /\ SearchSaved(searchRun) /\ searchRun.search_history_id = 1
    /\ ChannelSaved(channelRun) /\ channelRun.search_history_id = 2
    /\ channelRun.video_results.called
    /\ searchRun.video_results.count = 1
    /\ history[1].total_results = 1
    /\ channelRun.video_results.count = 0
    /\ history[2].total_results = 0

\* The aggregates of an empty set as the overviews may show them: nothing
\* counted, a sum of 0 and an average that is 0 or NaN.
ZeroOrNaN(x) == IsNaN(x) \/ x.num = 0

\* Channel analysis whose date filters kept nothing: the analysis is stored
\* and shown, with 0 videos, total views 0 and an average of 0 or NaN.
ChannelEmptyDefined ==
    (channelRun.kind = "analyze" /\ channelRun.outcome = "stored"
        /\ channelRun.filtered = <<>>) =>
        /\ channelView.shown
        /\ channelView.table = <<>>
        /\ channelView.overview.total_videos = 0
        /\ channelView.overview.total_views = 0
        /\ ZeroOrNaN(channelView.overview.value)

\* Video search whose thresholds kept nothing: the run ends at the warning
\* of lines 590-594, saves nothing and shows no metrics.
ThresholdEmptyDefined ==
    /\ (searchRun.kind = "search" /\ searchRun.thresholded.rows = <<>>) =>
          /\ searchRun.outcome \in {"error", "no_videos", "filtered_empty"}
          /\ searchRun.save = "none"
          /\ ~searchView.shown
    /\ searchRun.outcome = "filtered_empty" =>
          /\ searchRun.fetched.rows # <<>>
          /\ searchRun.thresholded.rows = <<>>

\* Video search whose sliders keep nothing: the metrics shown with the empty
\* table are those of an empty set.
SliderEmptyDefined ==
    (searchView.shown /\ searchView.filtered_df.rows = <<>>) =>
        /\ searchView.metrics.count = 0
        /\ searchView.metrics.total = 0
        /\ ZeroOrNaN(searchView.metrics.average)

\* C21 as stated: whenever the filtered record set is empty, after the date
\* filters of the channel analysis or after the thresholds or the sliders of
\* the video search, the aggregates are defined (sum 0, average 0 or NaN)
\* and the run ends in one of its regular outcomes.
C21_EmptySetAggregates ==
    /\ ChannelEmptyDefined
    /\ ThresholdEmptyDefined
    /\ SliderEmptyDefined

(***************************************************************************)
(* Specifications                                                          *)
(***************************************************************************)
Init == StoreInit /\ NormIdle /\ AppInit /\ DateIdle /\ ApiIdle

Next ==
    \/ \E df \in SeqsUpTo(DfRecords, MaxBatch) :
          insert_videos(df) /\ UNCHANGED <<callVars, normVars, appVars, dateVars>>
    \/ fetch_all_videos /\ UNCHANGED <<callVars, normVars, appVars, dateVars>>
    \/ create_table /\ UNCHANGED <<callVars, normVars, appVars, dateVars>>
    \/ DatabaseManager_init /\ UNCHANGED <<callVars, normVars, appVars, dateVars>>

Spec == Init /\ [][Next]_vars

\* One call of the normalizer on every input within the bounds.
InitNormalizer == StoreInit /\ NormInit /\ AppInit /\ DateIdle /\ ApiIdle

NextNormalizer ==
    videos_to_dataframe /\ UNCHANGED <<callVars, storeVars, appVars, dateVars>>

SpecNormalizer == InitNormalizer /\ [][NextNormalizer]_vars

\* One session's runs of video_search_tab.
NextSearch ==
    \/ \E c \in BOOLEAN :
          MainInit(c)
              /\ UNCHANGED <<callVars, storeVars, normVars, dateVars, chanVars,
                             searchVars, historyView>>
    \/ SearchNoQuery /\ UNCHANGED <<callVars, storeVars, normVars, dateVars, chanVars, historyView>>
    \/ \E mv \in MinViewsChoices, ms \in MaxSubscribersChoices :
          SearchApiError(mv, ms)
              /\ UNCHANGED <<callVars, storeVars, normVars, dateVars, chanVars, historyView>>
    \/ \E f \in ProcessedFrames, mv \in MinViewsChoices,
          ms \in MaxSubscribersChoices, so \in SaveOutcomes :
          CanRun(MaxHistory) /\ SearchPressed(f, mv, ms, so)
              /\ UNCHANGED <<callVars, storeVars, normVars, dateVars, chanVars, historyView>>
    \/ SearchRerun /\ UNCHANGED <<callVars, storeVars, normVars, dateVars, chanVars, historyView>>

SpecSearch == Init /\ [][NextSearch]_vars

\* One session in which only the channel analysis tab is used.
NextChannel ==
    \/ \E c \in BOOLEAN :
          MainInit(c)
              /\ UNCHANGED <<callVars, storeVars, normVars, dateVars, chanVars,
                             searchVars, historyView>>
    \/ ChannelNoId /\ UNCHANGED <<callVars, storeVars, normVars, dateVars, searchVars, historyView>>
    \/ \E o \in {"api_error", "not_found", "no_videos"} :
          ChannelAborted(o)
              /\ UNCHANGED <<callVars, storeVars, normVars, dateVars, searchVars, historyView>>
    \/ \E ci \in ChannelInfos, vs \in SeqsUpTo(MidnightVideos, MaxVideos),
          sel \in AnalysisSelections, so \in SaveOutcomes :
          CanRun(MaxHistory) /\ ChannelAnalyze(ci, vs, sel, so)
              /\ UNCHANGED <<callVars, storeVars, normVars, dateVars, searchVars, historyView>>
    \/ ChannelRerun /\ UNCHANGED <<callVars, storeVars, normVars, dateVars, searchVars, historyView>>

SpecChannel == Init /\ [][NextChannel]_vars

\* The inputs of the sessions in which all three tabs are used: at most one
\* search result without subscriber data, no thresholds, a channel with
\* subscribers and at most one video.
SessionFrames == {f \in ProcessedFrames : Len(f.rows) <= 1 /\ ~f.hasSubs}
SessionChannels == {ci \in ChannelInfos : ci.subscriber_count > 0}
SessionVideos == {vs \in SeqsUpTo(MidnightVideos, MaxVideos) : Len(vs) = 1}

\* One session: main's initialisation, then runs of the three tabs.
NextSession ==
    \/ \E c \in BOOLEAN :
          MainInit(c)
              /\ UNCHANGED <<callVars, storeVars, normVars, dateVars, chanVars,
                             searchVars, historyView>>
    \/ SearchNoQuery
          /\ UNCHANGED <<callVars, storeVars, normVars, dateVars, chanVars, historyView>>
    \/ SearchApiError(0, 0)
          /\ UNCHANGED <<callVars, storeVars, normVars, dateVars, chanVars, historyView>>
    \/ \E f \in SessionFrames, so \in SaveOutcomes :
          CanRun(MaxSessionHistory) /\ SearchPressed(f, 0, 0, so)
              /\ UNCHANGED <<callVars, storeVars, normVars, dateVars, chanVars,
                             historyView>>
    \/ SearchRerun
          /\ UNCHANGED <<callVars, storeVars, normVars, dateVars, chanVars, historyView>>
    \/ ChannelNoId
          /\ UNCHANGED <<callVars, storeVars, normVars, dateVars, searchVars,
                         historyView>>
    \/ \E o \in {"api_error", "not_found", "no_videos"} :
          ChannelAborted(o)
              /\ UNCHANGED <<callVars, storeVars, normVars, dateVars, searchVars,
                             historyView>>
    \/ \E ci \in SessionChannels, vs \in SessionVideos,
          sel \in AnalysisSelections, so \in SaveOutcomes :
          CanRun(MaxSessionHistory) /\ ChannelAnalyze(ci, vs, sel, so)
              /\ UNCHANGED <<callVars, storeVars, normVars, dateVars, searchVars,
                             historyView>>
    \/ ChannelRerun
          /\ UNCHANGED <<callVars, storeVars, normVars, dateVars, searchVars,
                         historyView>>
    \/ \E o \in ReadOutcomes, f \in HistoryTypeFilters :
          HistoryTab(o, f)
              /\ UNCHANGED <<callVars, storeVars, normVars, dateVars, searchVars,
                             chanVars>>

SpecSession == Init /\ [][NextSession]_vars

\* The date filtering of one channel analysis, and one call of
\* filter_videos_by_date, on every input within the bounds.
InitDateFilter == StoreInit /\ NormIdle /\ AppInit /\ DateInit /\ ApiIdle

NextDateFilter ==
    \/ filter_by_dates /\ UNCHANGED <<callVars, storeVars, normVars, appVars>>
    \/ call_filter_videos_by_date
          /\ UNCHANGED <<callVars, storeVars, normVars, appVars>>

SpecDateFilter == InitDateFilter /\ [][NextDateFilter]_vars

\* The history tab, and calls of get_popular_searches, on every ledger
\* within the bounds.
InitPopular == StoreInit /\ NormIdle /\ LedgerInit /\ DateIdle /\ ApiIdle

NextPopular ==
    \/ MainInit(TRUE)
          /\ UNCHANGED <<callVars, storeVars, normVars, dateVars, chanVars,
                         searchVars, historyView>>
    \/ \E o \in ReadOutcomes, f \in HistoryTypeFilters :
          HistoryTab(o, f)
              /\ UNCHANGED <<callVars, storeVars, normVars, dateVars,
                             searchVars, chanVars>>
    \/ \E t \in SearchTypes, limit \in 1..2 :
          call_get_popular_searches(t, limit)
              /\ UNCHANGED <<storeVars, normVars, dateVars, appVars>>

SpecPopular == InitPopular /\ [][NextPopular]_vars

\* One call of search_videos for every value of max_results.
InitApiClient == StoreInit /\ NormIdle /\ AppInit /\ DateIdle /\ ApiInit

NextApiClient ==
    search_videos /\ UNCHANGED <<storeVars, normVars, appVars, dateVars>>

SpecApiClient == InitApiClient /\ [][NextApiClient]_vars

====
